---- MODULE Spec2Model ----
(***************************************************************************)
(* "Falling Rocks" (src/src/App.tsx, the responsive version that starts at *)
(* line 292): the React component App, its state hooks and refs, the       *)
(* animation-frame game loop, the key / touch / resize handlers and the    *)
(* start button.                                                           *)
(*                                                                         *)
(* One action is one browser event: the handler runs, React applies the    *)
(* queued state updaters in hook order, re-renders, and runs the effects   *)
(* whose dependencies changed.                                             *)
(*                                                                         *)
(* Numbers.  The program computes in floating point.  Every length here is *)
(* an integer count of 1/Sub pixel, which is exact for all values the      *)
(* model draws (Math.random() is drawn in tenths, scales are multiples of  *)
(* 1/ScaleDen).  Times are milliseconds.                                   *)
(***************************************************************************)
EXTENDS Integers, Naturals, Sequences, FiniteSets, TLC

Min(a, b) == IF a < b THEN a ELSE b
Max(a, b) == IF a > b THEN a ELSE b

\* sub-pixel units per pixel
Sub == 600 * 100

----------------------------------------------------------------------------
(* Program constants, lines 322-329 *)
BASE_WIDTH == 800
BASE_HEIGHT == 600
BASE_PLAYER_SIZE == 40
BASE_OBJECT_SIZE == 30
BASE_PLAYER_SPEED == 8
MIN_WIDTH == 280
MIN_HEIGHT == 200
\* 0.35, in hundredths
MIN_SCALE == 35

\* scales are integers in units of 1/ScaleDen: (innerWidth-16)/800 and
\* innerHeight*0.6/600 = innerHeight/1000 are both multiples of 1/4000
ScaleDen == 5 * BASE_WIDTH

----------------------------------------------------------------------------
(* Bounds of the model *)

\* objectIdRef is capped: no tick that has to spawn runs once MaxObjects
\* objects were created
MaxObjects == 14
\* key, touch and resize events delivered in one run
MaxEvents == 2
\* while the game runs, events arrive only when Date.now() is a multiple of
\* InputPeriod
InputPeriod == 2000

\* milliseconds between two animation frames; fixed for a run
FrameIntervals == {50, 1000, 1001}

\* window sizes <<innerWidth, innerHeight>>: scale 1 and scale 0.35
WideViewport == <<816, 1000>>
NarrowViewport == <<296, 1000>>
Viewports == {WideViewport, NarrowViewport}

\* window sizes for the geometry alone: negative, zero, below and above the
\* range in which the scale moves
TestWidths == {-100, 0, 16, 17, 200, 296, 297, 400, 555, 700, 816, 2000}
TestHeights == {-50, 0, 100, 350, 351, 500, 777, 1000, 3000}
TestViewports == {<<w, h>> : w \in TestWidths, h \in TestHeights}

\* the keys the environment presses
KeyNames == {"ArrowLeft", "d"}

\* Math.random(), in tenths: a cyclic stream, three draws per spawn in the
\* order of spawnObject (type, speed, x).
Rand ==
  << 4, 8, 5,    \* coin, fast, above the centred player
     6, 8, 5,    \* star
     8, 8, 5,    \* gem
     0, 0, 5,    \* rock (types[0]), slow
     2, 0, 5,    \* rock (types[1]), slow
     0, 0, 5,    \* rock, slow
     7, 0, 0,    \* star at the left edge
     9, 8, 9,    \* gem near the right edge
     1, 8, 5,    \* rock, fast
     3, 0, 5,    \* rock, slow
     2, 0, 5,    \* rock, slow
     4, 0, 5,    \* coin, slowest: reaches the centred player after 271 frames of 50 ms
     4, 2, 5,    \* coin, after 235 frames
     0, 4, 5,    \* rock, level with the player 142 frames after its spawn
     6, 4, 5,    \* star, 3 spawns after the first coin, reaches the player with it
     8, 6, 5,    \* gem, 4 spawns after the first coin, reaches the player with it
     0, 3, 5 >>  \* rock, 4 spawns after the second coin, reaches the player with it
\* where in the stream a run starts
Seeds == {0, 9, 18, 33}

----------------------------------------------------------------------------
VARIABLES
  window,          \* <<window.innerWidth, window.innerHeight>>
  dims,            \* useGameDimensions state; dimsRef.current is the same value after every render
  gameStarted, gameOver, score, lives,
  player,          \* [x, y, width, height]
  objects,         \* sequence of [id, x, y, speed, type]
  keys, touchDirection,
  gameLoopRef,     \* handle of the last requested animation frame, 0 = undefined
  objectIdRef, lastSpawnRef,
  pending,         \* handles of the animation frames requested and not yet fired or cancelled
  now,             \* Date.now()
  frameMs,         \* environment: time between frames
  rnd,             \* environment: position in Rand
  events,          \* number of key / touch / resize events so far
  outcomes,        \* history: per tick with a collision, the types that collided, this session
  spawnedAt,       \* history: Date.now() of the latest spawn, -1 before the first
  removed,         \* history: [id, how] of every object that left the list
  spawnedUnder,    \* history: the geometry at the spawn of object id, at index id + 1
  resized,         \* history: a resize came since the last start
  lastAction       \* history: the last event handled

vars == << window, dims, gameStarted, gameOver, score, lives, player, objects, keys,
           touchDirection, gameLoopRef, objectIdRef, lastSpawnRef, pending,
           now, frameMs, rnd, events, outcomes, spawnedAt, removed, spawnedUnder, resized, lastAction >>

NoTouch == "null"

----------------------------------------------------------------------------
(* useGameDimensions: calculateDimensions, lines 333-360 *)

\* Math.max(Math.min(widthScale, heightScale, 1), MIN_SCALE), in 1/ScaleDen
Scale(innerWidth, innerHeight) ==
  LET availableWidth == innerWidth - 16
      widthScale == (availableWidth * ScaleDen) \div BASE_WIDTH
      \* availableHeight = innerHeight * 0.6; / BASE_HEIGHT
      heightScale == (innerHeight * 6 * ScaleDen) \div (10 * BASE_HEIGHT)
      rawScale == Min(Min(widthScale, heightScale), ScaleDen)
  IN Max(rawScale, (MIN_SCALE * ScaleDen) \div 100)

\* mutant: the width is not held at MIN_WIDTH
calculateDimensions_noMinWidth(innerWidth, innerHeight) ==
  LET availableWidth == innerWidth - 16
      scale == Scale(innerWidth, innerHeight)
      Floor(base) == (base * scale) \div ScaleDen
  IN [ width       |-> Sub * Min(Floor(BASE_WIDTH), availableWidth),
       height      |-> Sub * Max(MIN_HEIGHT, Floor(BASE_HEIGHT)),
       playerSize  |-> Sub * Max(20, Floor(BASE_PLAYER_SIZE)),
       objectSize  |-> Sub * Max(16, Floor(BASE_OBJECT_SIZE)),
       playerSpeed |-> Max(3 * Sub, BASE_PLAYER_SPEED * scale * (Sub \div ScaleDen)) ]

calculateDimensions(innerWidth, innerHeight) ==
  LET availableWidth == innerWidth - 16
      scale == Scale(innerWidth, innerHeight)
      Floor(base) == (base * scale) \div ScaleDen
  IN [ width       |-> Sub * Max(MIN_WIDTH, Min(Floor(BASE_WIDTH), availableWidth)),
       height      |-> Sub * Max(MIN_HEIGHT, Floor(BASE_HEIGHT)),
       playerSize  |-> Sub * Max(20, Floor(BASE_PLAYER_SIZE)),
       objectSize  |-> Sub * Max(16, Floor(BASE_OBJECT_SIZE)),
       playerSpeed |-> Max(3 * Sub, BASE_PLAYER_SPEED * scale * (Sub \div ScaleDen)) ]

\* the player placed under geometry d: lines 380-385, 401-406, 541-546
CenteredPlayer(d) ==
  [ x      |-> d.width \div 2 - d.playerSize \div 2,
    y      |-> d.height - d.playerSize - 20 * Sub,
    width  |-> d.playerSize,
    height |-> d.playerSize ]

----------------------------------------------------------------------------
(* Math.random(): the i-th draw from the current stream position, in tenths *)
Random(i) == Rand[((rnd + i) % Len(Rand)) + 1]

types == << "rock", "rock", "coin", "star", "gem" >>

\* mutant: the id is the length of the list
spawnObject_idFromLength ==
  LET type == types[(Random(0) * Len(types)) \div 10 + 1]
      currentDims == dims
      baseSpeed == IF type = "rock" THEN 300 + Random(1) * 20
                                    ELSE 200 + Random(1) * 15
      scaledSpeed == (baseSpeed * (currentDims.height \div BASE_HEIGHT)) \div 100
  IN [ id    |-> Len(objects),
       x     |-> (Random(2) * (currentDims.width - currentDims.objectSize)) \div 10,
       y     |-> -currentDims.objectSize,
       speed |-> scaledSpeed,
       type  |-> type ]

\* spawnObject, lines 410-426: the object appended to the list
spawnObject ==
  LET type == types[(Random(0) * Len(types)) \div 10 + 1]
      currentDims == dims
      \* 3 + random*2 or 2 + random*1.5, in hundredths
      baseSpeed == IF type = "rock" THEN 300 + Random(1) * 20
                                    ELSE 200 + Random(1) * 15
      scaledSpeed == (baseSpeed * (currentDims.height \div BASE_HEIGHT)) \div 100
  IN [ id    |-> objectIdRef,
       x     |-> (Random(2) * (currentDims.width - currentDims.objectSize)) \div 10,
       y     |-> -currentDims.objectSize,
       speed |-> scaledSpeed,
       type  |-> type ]

\* mutant: rectangles that touch collide
checkCollision_touching(obj, plr) ==
  LET currentDims == dims
  IN /\ obj.x <= plr.x + plr.width
     /\ obj.x + currentDims.objectSize >= plr.x
     /\ obj.y <= plr.y + plr.height
     /\ obj.y + currentDims.objectSize >= plr.y

\* checkCollision, lines 428-436
checkCollision(obj, plr) ==
  LET currentDims == dims
  IN /\ obj.x < plr.x + plr.width
     /\ obj.x + currentDims.objectSize > plr.x
     /\ obj.y < plr.y + plr.height
     /\ obj.y + currentDims.objectSize > plr.y

\* lines 453-454
isMovingLeft ==
  "ArrowLeft" \in keys \/ "a" \in keys \/ "A" \in keys \/ touchDirection = "left"
isMovingRight ==
  "ArrowRight" \in keys \/ "d" \in keys \/ "D" \in keys \/ touchDirection = "right"

\* mutant: left is applied after right
movePlayer_leftLast(prev) ==
  LET currentDims == dims
      x0 == prev.x
      x1 == IF isMovingRight
            THEN Min(currentDims.width - currentDims.playerSize,
                     prev.x + currentDims.playerSpeed)
            ELSE x0
      newX == IF isMovingLeft THEN Max(0, prev.x - currentDims.playerSpeed) ELSE x1
  IN [prev EXCEPT !.x = newX]

\* mutant: the move to the left is not held at 0
movePlayer_noLeftClamp(prev) ==
  LET currentDims == dims
      x0 == prev.x
      x1 == IF isMovingLeft THEN prev.x - currentDims.playerSpeed ELSE x0
      newX == IF isMovingRight
              THEN Min(currentDims.width - currentDims.playerSize,
                       prev.x + currentDims.playerSpeed)
              ELSE x1
  IN [prev EXCEPT !.x = newX]

\* the setPlayer updater of gameLoop, lines 451-465
movePlayer(prev) ==
  LET currentDims == dims
      x0 == prev.x
      x1 == IF isMovingLeft THEN Max(0, prev.x - currentDims.playerSpeed) ELSE x0
      newX == IF isMovingRight
              THEN Min(currentDims.width - currentDims.playerSize,
                       prev.x + currentDims.playerSpeed)
              ELSE x1
  IN [prev EXCEPT !.x = newX]

\* mutant: the test with >= for >
spawnDue_inclusive(t) == t - lastSpawnRef >= 1000

\* the spawn test of gameLoop, line 444
spawnDue(t) == t - lastSpawnRef > 1000

\* mutant: the game ends only below zero lives
hitRock_belowZero(st) ==
  LET newLives == st.lives - 1
  IN [st EXCEPT !.lives = newLives,
                !.gameOver = IF newLives < 0 THEN TRUE ELSE st.gameOver]

\* mutant: a rock costs two lives
hitRock_twoLives(st) ==
  LET newLives == st.lives - 2
  IN [st EXCEPT !.lives = newLives,
                !.gameOver = IF newLives <= 0 THEN TRUE ELSE st.gameOver]

\* mutant: lives stop at zero
hitRock_clamped(st) ==
  LET newLives == Max(0, st.lives - 1)
  IN [st EXCEPT !.lives = newLives,
                !.gameOver = IF newLives <= 0 THEN TRUE ELSE st.gameOver]

\* setLives updater, lines 477-483: st is [lives, score, gameOver]
hitRock(st) ==
  LET newLives == st.lives - 1
  IN [st EXCEPT !.lives = newLives,
                !.gameOver = IF newLives <= 0 THEN TRUE ELSE st.gameOver]

\* mutant: a star is worth 20
reward_cheapStar(type) ==
  CASE type = "coin" -> 10
    [] type = "star" -> 20
    [] type = "gem"  -> 50
    [] OTHER -> 0

\* lines 484-490
reward(type) ==
  CASE type = "coin" -> 10
    [] type = "star" -> 25
    [] type = "gem"  -> 50
    [] OTHER -> 0

\* mutant: a rock also takes 10 points
applyOutcome_penalty(st, type) ==
  IF type = "rock" THEN [hitRock(st) EXCEPT !.score = st.score - 10]
  ELSE [st EXCEPT !.score = st.score + reward(type)]

\* one colliding object, lines 476-490
applyOutcome(st, type) ==
  IF type = "rock" THEN hitRock(st)
  ELSE [st EXCEPT !.score = st.score + reward(type)]

\* the queued setLives / setScore updaters of one tick, applied in the order
\* of the forEach at line 474
RECURSIVE applyOutcomes(_, _)
applyOutcomes(st, hits) ==
  IF hits = << >> THEN st
  ELSE applyOutcomes(applyOutcome(st, Head(hits).type), Tail(hits))

SeqMap(F(_), s) == [i \in 1..Len(s) |-> F(s[i])]
Range(s) == {s[i] : i \in 1..Len(s)}

\* line 469
fall(obj) == [obj EXCEPT !.y = obj.y + obj.speed]
\* mutant: an object at y = height stays
onField_inclusive(obj) == obj.y <= dims.height

\* line 470
onField(obj) == obj.y < dims.height

\* mutant: the loop is not stopped by gameOver
returnsEarly_notStartedOnly == ~gameStarted

\* line 439
returnsEarly == ~gameStarted \/ gameOver

\* gameLoop, lines 438-500, called at time t: the state it and the updaters
\* it queues produce.
gameLoop(t) ==
  IF returnsEarly
  THEN [ player |-> player, objects |-> objects, lives |-> lives,
         score |-> score, gameOver |-> gameOver,
         lastSpawnRef |-> lastSpawnRef, objectIdRef |-> objectIdRef,
         rnd |-> rnd, hits |-> << >>, ran |-> FALSE ]
  ELSE
    LET due == spawnDue(t)
        \* setObjects(prev => [...prev, newObject]) is queued first
        spawned == IF due THEN Append(objects, spawnObject) ELSE objects
        currentPlayer == movePlayer(player)
        updated == SelectSeq(SeqMap(fall, spawned), onField)
        Hit(obj) == checkCollision(obj, currentPlayer)
        Miss(obj) == ~checkCollision(obj, currentPlayer)
        hits == SelectSeq(updated, Hit)
        remaining == SelectSeq(updated, Miss)
        st == applyOutcomes([lives |-> lives, score |-> score, gameOver |-> gameOver], hits)
    IN [ player |-> currentPlayer, objects |-> remaining, lives |-> st.lives,
         score |-> st.score, gameOver |-> st.gameOver,
         lastSpawnRef |-> IF due THEN t ELSE lastSpawnRef,
         objectIdRef |-> IF due THEN objectIdRef + 1 ELSE objectIdRef,
         rnd |-> IF due THEN (rnd + 3) % Len(Rand) ELSE rnd,
         hits |-> SeqMap(LAMBDA o : o.type, hits), ran |-> TRUE ]

----------------------------------------------------------------------------
(* Animation frames *)

\* requestAnimationFrame: a handle not in use
FreshHandle(P, ref) ==
  CHOOSE n \in 1..(Cardinality(P) + 2) :
     /\ n \notin P \cup {ref}
     /\ \A m \in 1..(n - 1) : m \in P \cup {ref}

\* mutant: the effect has no cleanup
loopEffect_noCleanup(wasRunning, isRunning, P, ref) ==
  LET h == FreshHandle(P, ref)
  IN IF isRunning
     THEN [pending |-> P \cup {h}, gameLoopRef |-> h]
     ELSE [pending |-> P, gameLoopRef |-> ref]

\* mutant: a re-run of the effect cancels the frame and requests none
loopEffect_cancelOnly(wasRunning, isRunning, P, ref) ==
  LET cancelled == IF wasRunning /\ ref # 0 THEN P \ {ref} ELSE P
      h == FreshHandle(cancelled, ref)
  IN IF isRunning /\ ~wasRunning
     THEN [pending |-> cancelled \cup {h}, gameLoopRef |-> h]
     ELSE [pending |-> cancelled, gameLoopRef |-> ref]

\* the effect of lines 502-511, run when one of gameStarted, gameOver,
\* gameLoop changed in a render: the cleanup of the previous run (there is
\* one iff the game was running), then the new run.
loopEffect(wasRunning, isRunning, P, ref) ==
  LET cancelled == IF wasRunning /\ ref # 0 THEN P \ {ref} ELSE P
      h == FreshHandle(cancelled, ref)
  IN IF isRunning
     THEN [pending |-> cancelled \cup {h}, gameLoopRef |-> h]
     ELSE [pending |-> cancelled, gameLoopRef |-> ref]

Running == gameStarted /\ ~gameOver

----------------------------------------------------------------------------
Init ==
  /\ window = WideViewport
  /\ dims = calculateDimensions(window[1], window[2])
  /\ gameStarted = FALSE
  /\ gameOver = FALSE
  /\ score = 0
  /\ lives = 3
  /\ player = CenteredPlayer(dims)
  /\ objects = << >>
  /\ keys = {}
  /\ touchDirection = NoTouch
  /\ gameLoopRef = 0
  /\ objectIdRef = 0
  /\ lastSpawnRef = 0
  /\ pending = {}
  /\ now = 10 * 1000
  /\ frameMs \in FrameIntervals
  /\ rnd \in Seeds
  /\ events = 0
  /\ outcomes = << >>
  /\ spawnedAt = -1
  /\ removed = {}
  /\ spawnedUnder = << >>
  /\ resized = FALSE
  /\ lastAction = "init"

\* mutant: lives are not reset
sessionReset_keepsLives == [score |-> 0, lives |-> lives, objects |-> << >>]

\* lines 538-540
sessionReset == [score |-> 0, lives |-> 3, objects |-> << >>]

\* startGame, lines 535-548, called at time t: the state its setters and the
\* write to lastSpawnRef produce
startGameState(t) ==
  [ gameStarted  |-> TRUE,
    gameOver     |-> FALSE,
    score        |-> sessionReset.score,
    lives        |-> sessionReset.lives,
    objects      |-> sessionReset.objects,
    player       |-> CenteredPlayer(dims),
    lastSpawnRef |-> t ]

\* mutant: a start clears the held keys and the touch direction
startGame_clearsInput ==
  /\ ~gameStarted \/ gameOver
  /\ LET s == startGameState(now)
     IN /\ gameStarted' = s.gameStarted
        /\ gameOver' = s.gameOver
        /\ score' = s.score
        /\ lives' = s.lives
        /\ objects' = s.objects
        /\ player' = s.player
        /\ lastSpawnRef' = s.lastSpawnRef
  /\ keys' = {}
  /\ touchDirection' = NoTouch
  /\ LET e == loopEffect(Running, TRUE, pending, gameLoopRef)
     IN pending' = e.pending /\ gameLoopRef' = e.gameLoopRef
  /\ outcomes' = << >>
  /\ removed' = removed \cup {[id |-> objects[i].id, how |-> "restart"] : i \in 1..Len(objects)}
  /\ lastAction' = "startGame"
  /\ UNCHANGED << window, dims, objectIdRef, now, frameMs, rnd,
                  events, spawnedAt, spawnedUnder >>
  /\ resized' = FALSE

\* a click on the Start Game / Play Again button, which is rendered iff the
\* game is not started or is over (lines 599-631)
startGame ==
  /\ ~gameStarted \/ gameOver
  /\ LET s == startGameState(now)
     IN /\ gameStarted' = s.gameStarted
        /\ gameOver' = s.gameOver
        /\ score' = s.score
        /\ lives' = s.lives
        /\ objects' = s.objects
        /\ player' = s.player
        /\ lastSpawnRef' = s.lastSpawnRef
  /\ LET e == loopEffect(Running, TRUE, pending, gameLoopRef)
     IN pending' = e.pending /\ gameLoopRef' = e.gameLoopRef
  /\ outcomes' = << >>
  /\ removed' = removed \cup {[id |-> objects[i].id, how |-> "restart"] : i \in 1..Len(objects)}
  /\ lastAction' = "startGame"
  /\ UNCHANGED << window, dims, keys, touchDirection, objectIdRef, now, frameMs, rnd,
                  events, spawnedAt, spawnedUnder >>
  /\ resized' = FALSE

\* An animation frame fires: gameLoop runs, requests the next frame (line
\* 499), React applies the updaters and re-renders, and the loop effect
\* (gameLoop is a new function, its dependency player changed) runs.
Tick ==
  \E h \in pending :
    /\ now' = now + frameMs
    /\ spawnDue(now') /\ Running => objectIdRef < MaxObjects
    /\ \E r \in {gameLoop(now')} : LET
           fired == pending \ {h}
           h2 == FreshHandle(fired, gameLoopRef)
           e == IF r.ran
                THEN loopEffect(TRUE, ~r.gameOver, fired \cup {h2}, h2)
                ELSE [pending |-> fired, gameLoopRef |-> gameLoopRef]
       IN /\ player' = r.player
          /\ objects' = r.objects
          /\ lives' = r.lives
          /\ score' = r.score
          /\ gameOver' = r.gameOver
          /\ lastSpawnRef' = r.lastSpawnRef
          /\ objectIdRef' = r.objectIdRef
          /\ rnd' = r.rnd
          /\ pending' = e.pending
          /\ gameLoopRef' = e.gameLoopRef
          /\ outcomes' = IF r.hits = << >> THEN outcomes ELSE Append(outcomes, r.hits)
          /\ spawnedAt' = IF r.objectIdRef # objectIdRef THEN now' ELSE spawnedAt
          /\ spawnedUnder' = IF r.objectIdRef # objectIdRef
                              THEN Append(spawnedUnder, dims) ELSE spawnedUnder
          /\ removed' = removed \cup
               { [id |-> o.id,
                  how |-> IF o.y + o.speed >= dims.height THEN "miss" ELSE "hit"] :
                 o \in { p \in Range(objects) \cup {spawnObject} :
                           /\ p.id < r.objectIdRef
                           /\ \A i \in 1..Len(r.objects) : r.objects[i].id # p.id } }
    /\ lastAction' = "tick"
    /\ UNCHANGED << window, dims, gameStarted, keys, touchDirection, frameMs, events, resized >>

\* the environment may deliver a key, touch or resize event now
deliverable ==
  /\ events < MaxEvents
  /\ Running => now % InputPeriod = 0

\* a render in which keys or touchDirection changed: gameLoop is a new
\* function, so the loop effect runs
inputRender ==
  /\ deliverable
  /\ events' = events + 1
  /\ LET e == loopEffect(Running, Running, pending, gameLoopRef)
     IN pending' = e.pending /\ gameLoopRef' = e.gameLoopRef
  /\ UNCHANGED << window, dims, gameStarted, gameOver, score, lives, player, objects,
                  objectIdRef, lastSpawnRef, now, frameMs, rnd, outcomes, spawnedAt, removed, spawnedUnder, resized >>

\* mutant: a key press dismisses the game-over screen
handleKeyDown_dismisses(key) ==
  /\ key \notin keys
  /\ keys' = keys \cup {key}
  /\ deliverable
  /\ events' = events + 1
  /\ gameOver' = FALSE
  /\ LET e == loopEffect(Running, gameStarted, pending, gameLoopRef)
     IN pending' = e.pending /\ gameLoopRef' = e.gameLoopRef
  /\ lastAction' = "keydown"
  /\ UNCHANGED << window, dims, gameStarted, score, lives, player, objects, touchDirection,
                  objectIdRef, lastSpawnRef, now, frameMs, rnd, outcomes, spawnedAt, removed, spawnedUnder, resized >>

\* handleKeyDown, lines 514-516
handleKeyDown(key) ==
  /\ key \notin keys
  /\ keys' = keys \cup {key}
  /\ inputRender
  /\ lastAction' = "keydown"
  /\ UNCHANGED touchDirection

\* handleKeyUp, lines 518-524
handleKeyUp(key) ==
  /\ key \in keys
  /\ keys' = keys \ {key}
  /\ inputRender
  /\ lastAction' = "keyup"
  /\ UNCHANGED touchDirection

\* handleTouchStart, lines 560-562; the buttons exist only while the game
\* runs (line 676)
handleTouchStart(direction) ==
  /\ Running
  /\ direction # touchDirection
  /\ touchDirection' = direction
  /\ inputRender
  /\ lastAction' = "touchstart"
  /\ UNCHANGED keys

\* handleTouchEnd, lines 564-566
handleTouchEnd ==
  /\ Running
  /\ touchDirection # NoTouch
  /\ touchDirection' = NoTouch
  /\ inputRender
  /\ lastAction' = "touchend"
  /\ UNCHANGED keys

\* mutant: every resize places the player anew
handleResize_placesPlayer(viewport) ==
  /\ deliverable
  /\ events' = events + 1
  /\ window' = viewport
  /\ window' # window
  /\ dims' = calculateDimensions(window'[1], window'[2])
  /\ player' = CenteredPlayer(dims')
  /\ lastAction' = "resize"
  /\ UNCHANGED << gameStarted, gameOver, score, lives, objects, keys,
                  touchDirection, gameLoopRef, objectIdRef, lastSpawnRef,
                  pending, now, frameMs, rnd, outcomes, spawnedAt, removed, spawnedUnder >>
  /\ resized' = gameStarted

\* handleResize, lines 363-365, and the effects on dims, lines 395-408
handleResize(viewport) ==
  /\ deliverable
  /\ events' = events + 1
  /\ window' = viewport
  /\ window' # window
  /\ dims' = calculateDimensions(window'[1], window'[2])
  /\ player' = IF ~gameStarted THEN CenteredPlayer(dims') ELSE player
  /\ lastAction' = "resize"
  /\ UNCHANGED << gameStarted, gameOver, score, lives, objects, keys,
                  touchDirection, gameLoopRef, objectIdRef, lastSpawnRef,
                  pending, now, frameMs, rnd, outcomes, spawnedAt, removed, spawnedUnder >>
  /\ resized' = gameStarted

Next ==
  \/ startGame
  \/ Tick
  \/ \E key \in KeyNames : handleKeyDown(key)
  \/ \E key \in KeyNames : handleKeyUp(key)
  \/ \E direction \in {"left", "right"} : handleTouchStart(direction)
  \/ handleTouchEnd
  \/ \E viewport \in Viewports : handleResize(viewport)

Spec == Init /\ [][Next]_vars

----------------------------------------------------------------------------
(* Properties *)

NotStarted == ~gameStarted
GameOver == gameStarted /\ gameOver

\* the hazard collisions of this session, one entry per tick that had some
RockTicks ==
  LET IsRock(type) == type = "rock"
      Rocks(hits) == SelectSeq(hits, IsRock)
      Some(hits) == hits # << >>
  IN SelectSeq(SeqMap(Rocks, outcomes), Some)

\* all the collisions of this session, in order
RECURSIVE Flatten(_)
Flatten(ss) == IF ss = << >> THEN << >> ELSE Head(ss) \o Flatten(Tail(ss))

\* C1: in every reachable state lives is an integer in 0..3, also after a
\* tick in which several hazards overlap the player.
C1_LivesBound == lives \in 0..3

\* C2: no state has lives <= 0 while the game runs; the game goes from
\* running to over exactly on the tick that takes lives from above zero to
\* zero or below; and after three hazard collisions in three different ticks
\* of a session lives = 0 and the game is over.
C2_ZeroLivesState ==
  /\ lives <= 0 => ~Running
  /\ (Len(RockTicks) = 3 /\ \A i \in 1..3 : Len(RockTicks[i]) = 1)
       => (lives = 0 /\ GameOver)
C2_ZeroLivesStep ==
  /\ (Running /\ gameStarted' /\ gameOver') => (lives > 0 /\ lives' <= 0)
  /\ (Running /\ lives > 0 /\ lives' <= 0) => (gameStarted' /\ gameOver')
C2_ZeroLivesAtomic == [](C2_ZeroLivesState) /\ [][C2_ZeroLivesStep]_vars
\* three hazards met one after the other ended the session
C2_Witness ==
  /\ Len(RockTicks) = 3 /\ \A i \in 1..3 : Len(RockTicks[i]) = 1
  /\ lives = 0 /\ GameOver /\ lastAction = "tick"

\* C3: after every tick player.x lies in [0, width - playerSize] of the
\* current geometry, also on the tick after a resize to a narrower field.
C3_Containment ==
  lastAction = "tick" =>
     (0 <= player.x /\ player.x <= dims.width - dims.playerSize)

\* C4: startGame, called in any state (not started, running or over),
\* yields a running game with score 0, lives 3, no entities, the player
\* centred under the current geometry and the spawn timer at the current
\* time; and that is the state after every click on the start / restart
\* button.
C4_Reset(s, t) ==
  /\ s.gameStarted /\ ~s.gameOver
  /\ s.score = 0 /\ s.lives = 3 /\ s.objects = << >>
  /\ s.player.x = dims.width \div 2 - dims.playerSize \div 2
  /\ s.player.y = dims.height - dims.playerSize - 20 * Sub
  /\ s.player.width = dims.playerSize /\ s.player.height = dims.playerSize
  /\ s.lastSpawnRef = t
C4_StartResets ==
  /\ C4_Reset(startGameState(now), now)
  /\ lastAction = "startGame" =>
        C4_Reset([gameStarted |-> gameStarted, gameOver |-> gameOver,
                  score |-> score, lives |-> lives, objects |-> objects,
                  player |-> player, lastSpawnRef |-> lastSpawnRef], now)
\* a restart after a session that spawned objects
C4_Witness == lastAction = "startGame" /\ objectIdRef > 0

\* C5: while the game is not started or is over nothing advances: the loop
\* called at any time, and every key or touch event, leaves score, lives,
\* the entity list, the spawn timer and the player as they are.
C5_PausedLoop ==
  ~Running =>
     \A t \in {now, now + frameMs, now + 1001, now + 5000} :
        LET r == gameLoop(t)
        IN /\ r.score = score /\ r.lives = lives /\ r.objects = objects
           /\ r.lastSpawnRef = lastSpawnRef /\ r.objectIdRef = objectIdRef
           /\ r.player = player /\ r.gameOver = gameOver
C5_PausedStep ==
  (~Running /\ lastAction' \in {"tick", "keydown", "keyup", "touchstart", "touchend"})
     => UNCHANGED << score, lives, objects, lastSpawnRef, player >>
C5_Paused == [](C5_PausedLoop) /\ [][C5_PausedStep]_vars
\* a key event on the game-over screen with entities still on the field
C5_Witness ==
  GameOver /\ lastAction \in {"keydown", "keyup"} /\ objects # << >>

\* C6: a tick whose only collision is one hazard takes exactly one life and
\* leaves the score; after one hazard collision in a fresh session
\* lives = 2, score = 0 and the game runs.
C6_OneHazardState ==
  outcomes = << << "rock" >> >> => (lives = 2 /\ score = 0 /\ Running)
C6_OneHazardStep ==
  (lastAction' = "tick" /\ outcomes' = Append(outcomes, << "rock" >>))
     => (lives' = lives - 1 /\ score' = score)
C6_OneHazard == [](C6_OneHazardState) /\ [][C6_OneHazardStep]_vars
C6_Witness == outcomes = << << "rock" >> >> /\ lastAction = "tick"

\* C7: a tick whose only collision is a coin, a star or a gem adds 10, 25 or
\* 50 to the score and leaves lives and the phase; a session whose
\* collisions are one coin, one star and one gem has score 85.
C7_RewardState ==
  LET all == Flatten(outcomes)
  IN (Len(all) = 3 /\ {all[i] : i \in 1..3} = {"coin", "star", "gem"}) => score = 85
C7_RewardStep ==
  \A c \in {"coin", "star", "gem"} :
     (lastAction' = "tick" /\ outcomes' = Append(outcomes, << c >>))
        => /\ score' = score + (IF c = "coin" THEN 10 ELSE IF c = "star" THEN 25 ELSE 50)
           /\ lives' = lives
           /\ gameStarted' = gameStarted /\ gameOver' = gameOver
C7_Reward == [](C7_RewardState) /\ [][C7_RewardStep]_vars
C7_Witness ==
  outcomes = << << "coin" >>, << "star" >>, << "gem" >> >> /\ score = 85

\* C8: the score does not decrease in a step taken while the game runs and
\* does not change in a step taken while it is paused.
C8_ScoreMonotonic ==
  [][ /\ Running => score' >= score
      /\ ~Running => score' = score ]_vars
\* C8, amended: ... does not change in a step taken while it is paused,
\* other than start / restart, which sets it to 0.
C8_ScoreMonotonicButRestart ==
  [][ /\ Running => score' >= score
      /\ (~Running /\ lastAction' # "startGame") => score' = score
      /\ lastAction' = "startGame" => score' = 0 ]_vars
\* an event on the game-over screen of a session that scored
C8_Witness == GameOver /\ score > 0 /\ lastAction = "keydown" /\ keys # {}

\* C9: once the game is over it stays over under every tick, key, touch and
\* resize event; only start / restart makes it run again.
C9_OverStays ==
  [][ GameOver => (GameOver' \/ (lastAction' = "startGame" /\ Running')) ]_vars
\* a resize on the game-over screen
C9_Witness == GameOver /\ lives <= 0 /\ lastAction = "resize"

\* C10: a tick of the running game spawns exactly one entity and sets the
\* spawn timer to now when now - lastSpawnRef > 1000, and spawns nothing and
\* leaves the timer otherwise; start / restart sets the timer to now; no
\* spawn comes 1000 ms or less after the spawn before it.
Ids(objs) == {objs[i].id : i \in 1..Len(objs)}
C10_Cadence ==
  [][ /\ (Running /\ lastAction' = "tick") =>
           IF now' - lastSpawnRef > 1000
           THEN /\ objectIdRef' = objectIdRef + 1
                /\ lastSpawnRef' = now'
                /\ Ids(objects') \ Ids(objects) = {objectIdRef}
           ELSE /\ objectIdRef' = objectIdRef
                /\ lastSpawnRef' = lastSpawnRef
                /\ Ids(objects') \subseteq Ids(objects)
      /\ lastAction' = "startGame" => lastSpawnRef' = now'
      /\ objectIdRef' # objectIdRef =>
           (spawnedAt = -1 \/ now' - spawnedAt > 1000) ]_vars
\* the second or a later spawn has just happened
C10_Witness == objectIdRef >= 2 /\ spawnedAt = now /\ lastAction = "tick"

\* C11: at most one animation frame is pending in every reachable state,
\* whatever ticks, key / touch / resize renders, starts and game-overs came
\* before; none is pending while the game is not started or is over; and
\* while the game runs the pending frame is the one held in gameLoopRef.
C11_OnePending ==
  /\ Cardinality(pending) <= 1
  /\ ~Running => pending = {}
  /\ Running => pending = {gameLoopRef}
\* a session with key / touch / resize renders has ended: nothing is pending
C11_Witness ==
  GameOver /\ lastAction = "tick" /\ events = MaxEvents /\ pending = {}

\* C12: on every tick of the running game each entity in the list (the one
\* spawned in this tick included) has its y raised by its speed, which is
\* positive; it leaves the list exactly when the raised y >= height or it
\* overlaps the moved player, and otherwise stays with only y changed; and an
\* entity that left the list is never in it again.
C12_LifecycleState ==
  /\ \A o \in Range(objects) : o.speed > 0
  /\ \A r \in removed : r.id \notin Ids(objects)
C12_LifecycleStep ==
  (Running /\ lastAction' = "tick") =>
     LET before == Range(objects) \cup
                     (IF objectIdRef' # objectIdRef THEN {spawnObject} ELSE {})
     IN /\ Ids(objects') \subseteq {o.id : o \in before}
        /\ \A o \in before :
             LET y1 == o.y + o.speed
                 overlap == /\ o.x < player'.x + player'.width
                            /\ o.x + dims.objectSize > player'.x
                            /\ y1 < player'.y + player'.height
                            /\ y1 + dims.objectSize > player'.y
                 leaves == y1 >= dims.height \/ overlap
             IN /\ y1 > o.y
                /\ leaves <=> o.id \notin Ids(objects')
                /\ ~leaves => [o EXCEPT !.y = y1] \in Range(objects')
                /\ leaves => o.id \in {r.id : r \in removed'}
C12_Lifecycle == [](C12_LifecycleState) /\ [][C12_LifecycleStep]_vars
\* one entity fell past the bottom, another was caught, others still fall
C12_Witness ==
  /\ \E r \in removed : r.how = "miss"
  /\ \E r \in removed : r.how = "hit"
  /\ objects # << >> /\ lastAction = "tick"

\* the entities that overlap the moved player in the step's tick, after their
\* fall, as a set
Caught ==
  { o \in Range(objects) \cup (IF objectIdRef' # objectIdRef THEN {spawnObject} ELSE {}) :
      LET y1 == o.y + o.speed
      IN /\ y1 < dims.height
         /\ o.x < player'.x + player'.width
         /\ o.x + dims.objectSize > player'.x
         /\ y1 < player'.y + player'.height
         /\ y1 + dims.objectSize > player'.y }
OfType(S, type) == Cardinality({o \in S : o.type = type})

\* C13: on a tick of the running game every entity that overlaps the player
\* leaves the list and has its outcome applied once: the score rises by the
\* sum of the rewards of the caught entities and lives fall by the number of
\* caught hazards, whatever their order in the list; an entity caught (in
\* this or an earlier tick) is not in the list afterwards.
C13_AllOutcomesStep ==
  (Running /\ lastAction' = "tick") =>
     /\ score' = score + 10 * OfType(Caught, "coin") + 25 * OfType(Caught, "star")
                       + 50 * OfType(Caught, "gem")
     /\ lives' = lives - OfType(Caught, "rock")
     /\ \A o \in Caught : o.id \notin Ids(objects')
                           /\ [id |-> o.id, how |-> "hit"] \in removed'
     /\ IF Caught = {} THEN outcomes' = outcomes
        ELSE /\ Len(outcomes') = Len(outcomes) + 1
             /\ Len(outcomes'[Len(outcomes')]) = Cardinality(Caught)
C13_AllOutcomes ==
  /\ [](\A r \in removed : r.how = "hit" => r.id \notin Ids(objects))
  /\ [][C13_AllOutcomesStep]_vars
\* a tick in which three rewards were caught together, in a session that had
\* a hazard and a reward caught together before
C13_Witness ==
  /\ lastAction = "tick" /\ Len(outcomes) >= 2
  /\ LET last == outcomes[Len(outcomes)]
     IN Len(last) = 3 /\ \A i \in 1..3 : last[i] # "rock"
  /\ \E k \in 1..(Len(outcomes) - 1) :
        \E i, j \in 1..Len(outcomes[k]) :
           outcomes[k][i] = "rock" /\ outcomes[k][j] # "rock"

\* C14: a resize while the game runs leaves score, lives, the phase and the
\* entity list (so every entity's x and y) as they are; and afterwards the
\* entities spawned before it are still removed by the miss threshold and
\* the collision box of the geometry they were spawned under.
C14_ResizeStep ==
  (Running /\ lastAction' = "resize") =>
     UNCHANGED << score, lives, gameStarted, gameOver, objects >>
C14_OldGeometryStep ==
  (Running /\ lastAction' = "tick") =>
     \A o \in Range(objects) :
        LET g == spawnedUnder[o.id + 1]
            y1 == o.y + o.speed
            overlap == /\ o.x < player'.x + player'.width
                       /\ o.x + g.objectSize > player'.x
                       /\ y1 < player'.y + player'.height
                       /\ y1 + g.objectSize > player'.y
        IN (y1 >= g.height \/ overlap) <=> o.id \notin Ids(objects')
C14_ResizeMidSession == [][C14_ResizeStep /\ C14_OldGeometryStep]_vars
\* the part of C14 about the resize step alone
C14_ResizeKeepsSession == [][C14_ResizeStep]_vars

----------------------------------------------------------------------------
(* The geometry alone: the page opens in a window of any size and is resized
   to any size, before a game is started. *)
DimInit ==
  /\ window \in TestViewports
  /\ dims = calculateDimensions(window[1], window[2])
  /\ gameStarted = FALSE
  /\ gameOver = FALSE
  /\ score = 0
  /\ lives = 3
  /\ player = CenteredPlayer(dims)
  /\ objects = << >>
  /\ keys = {}
  /\ touchDirection = NoTouch
  /\ gameLoopRef = 0
  /\ objectIdRef = 0
  /\ lastSpawnRef = 0
  /\ pending = {}
  /\ now = 10 * 1000
  /\ frameMs = 50
  /\ rnd = 0
  /\ events = 0
  /\ outcomes = << >>
  /\ spawnedAt = -1
  /\ removed = {}
  /\ spawnedUnder = << >>
  /\ resized = FALSE
  /\ lastAction = "init"
DimNext == \E viewport \in TestViewports : handleResize(viewport)
DimSpec == DimInit /\ [][DimNext]_vars

\* C15: for every window size, zero and negative ones included, the geometry
\* has width >= 280, height >= 200, playerSize >= 20, objectSize >= 16,
\* playerSpeed >= 3, and the width exceeds both playerSize and objectSize.
C15_Minimums ==
  /\ dims = calculateDimensions(window[1], window[2])
  /\ dims.width >= 280 * Sub
  /\ dims.height >= 200 * Sub
  /\ dims.playerSize >= 20 * Sub
  /\ dims.objectSize >= 16 * Sub
  /\ dims.playerSpeed >= 3 * Sub
  /\ dims.width > dims.playerSize
  /\ dims.width > dims.objectSize
\* the window was resized to a width and a height that are not positive
C15_Witness ==
  window[1] <= 0 /\ window[2] <= 0 /\ lastAction = "resize"

\* C16: in every reachable state the ids of the entity list are strictly
\* increasing along the list (so pairwise distinct) and below the counter;
\* the counter never decreases, restart included; a spawn puts the new
\* entity, with the counter's value as id, at the end; and a tick keeps the
\* relative order of the entities that stay.
C16_IdsState ==
  /\ \A i, j \in 1..Len(objects) : i < j => objects[i].id < objects[j].id
  /\ \A i \in 1..Len(objects) : objects[i].id < objectIdRef
C16_IdsStep ==
  /\ objectIdRef' >= objectIdRef
  /\ lastAction' = "startGame" => objectIdRef' = objectIdRef
  /\ objectIdRef' # objectIdRef =>
        /\ objectIdRef' = objectIdRef + 1
        /\ objects' # << >> /\ objects'[Len(objects')].id = objectIdRef
  /\ LET ids == [i \in 1..Len(objects) |-> objects[i].id]
         ids2 == [i \in 1..Len(objects') |-> objects'[i].id]
         Stays(id) == id \in Ids(objects')
         Was(id) == id \in Ids(objects)
     IN SelectSeq(ids, Stays) = SelectSeq(ids2, Was)
C16_IdsIncreasing == [](C16_IdsState) /\ [][C16_IdsStep]_vars
\* a second session has spawned; the restart that began it cleared a list
\* that held entities on both sides of one caught before
C16_Witness ==
  /\ \E r, q1, q2 \in removed :
        /\ r.how = "hit" /\ q1.how = "restart" /\ q2.how = "restart"
        /\ q1.id < r.id /\ r.id < q2.id
  /\ objects # << >> /\ lastAction = "tick"

\* C17: on a tick of the running game with a left and a right intent both
\* held the player moves right: player.x becomes
\* min(width - playerSize, x + playerSpeed).
C17_RightWins ==
  [][ (Running /\ lastAction' = "tick" /\ isMovingLeft /\ isMovingRight) =>
        player'.x = Min(dims.width - dims.playerSize, player.x + dims.playerSpeed) ]_vars
\* with both intents held the player has reached the right edge
C17_Witness ==
  /\ lastAction = "tick" /\ isMovingLeft /\ isMovingRight
  /\ player.x = dims.width - dims.playerSize

\* the rectangle test of the claim: entity at (x, y) of size size against p
Overlap(x, y, size, p) ==
  /\ x < p.x + p.width
  /\ x + size > p.x
  /\ y < p.y + p.height
  /\ y + size > p.y

\* C18: on a tick of the running game an entity that stays above the bottom
\* collides (leaves the list with its outcome recorded) iff its rectangle at
\* the advanced y strictly overlaps the player's rectangle at the x the
\* player has after this tick's movement; rectangles that only touch do not
\* collide.
C18_CollisionStep ==
  (Running /\ lastAction' = "tick") =>
     \A o \in Range(objects) \cup (IF objectIdRef' # objectIdRef THEN {spawnObject} ELSE {}) :
        LET y1 == o.y + o.speed
        IN y1 < dims.height =>
             /\ Overlap(o.x, y1, dims.objectSize, player') <=> o.id \notin Ids(objects')
             /\ Overlap(o.x, y1, dims.objectSize, player')
                   <=> [id |-> o.id, how |-> "hit"] \in removed'
C18_Collision == [][C18_CollisionStep]_vars
\* the player has just stepped aside, with one intent held, from under an
\* entity that is level with it: the entity overlaps the place the player
\* left and is still in the list
C18_Witness ==
  /\ lastAction = "tick" /\ Running
  /\ isMovingLeft # isMovingRight
  /\ 0 < player.x /\ player.x < dims.width - dims.playerSize
  /\ LET before == [player EXCEPT !.x = IF isMovingRight
                                         THEN player.x - dims.playerSpeed
                                         ELSE player.x + dims.playerSpeed]
     IN \E o \in Range(objects) :
          /\ Overlap(o.x, o.y, dims.objectSize, before)
          /\ ~Overlap(o.x, o.y, dims.objectSize, player)
\* an entity rests exactly on the player's top edge and is still in the list
C18_WitnessTouch ==
  /\ lastAction = "tick"
  /\ \E o \in Range(objects) :
        /\ o.y + dims.objectSize = player.y
        /\ o.x < player.x + player.width /\ o.x + dims.objectSize > player.x

\* C19: start / restart and the tick that ends a session leave the held keys
\* and the touch direction as they are, and the first tick after a start
\* moves the centred player by the intent that is held then.
C19_InputKeptStep ==
  /\ lastAction' = "startGame" => UNCHANGED << keys, touchDirection >>
  /\ (Running /\ GameOver') => UNCHANGED << keys, touchDirection >>
  /\ (lastAction = "startGame" /\ lastAction' = "tick") =>
        player'.x = IF isMovingRight
                    THEN Min(dims.width - dims.playerSize, player.x + dims.playerSpeed)
                    ELSE IF isMovingLeft THEN Max(0, player.x - dims.playerSpeed)
                    ELSE player.x
C19_InputKept == [][C19_InputKeptStep]_vars
\* the first tick of a later session has moved the player to the left of the
\* centre by the touch held since the session before: the touch buttons
\* exist only while a game runs, and no event can have come between this
\* session's start and its first tick
C19_Witness ==
  /\ lastAction = "tick" /\ Running
  /\ touchDirection = "left" /\ keys = {}
  /\ objectIdRef > 0 /\ objects = << >> /\ outcomes = << >>
  /\ lastSpawnRef = now - frameMs /\ lastSpawnRef % InputPeriod # 0
  /\ player.x = CenteredPlayer(dims).x - dims.playerSpeed

\* C20: the player's y, width and height change only in a start / restart
\* and in a resize received before the first start; no tick and no resize
\* received while the game runs or is over changes them.
C20_PlayerBoxStep ==
  LET same == /\ player'.y = player.y
              /\ player'.width = player.width
              /\ player'.height = player.height
  IN /\ lastAction' = "tick" => same
     /\ (lastAction' = "resize" /\ gameStarted) => same
     /\ ~same => (lastAction' = "startGame" \/ (lastAction' = "resize" /\ ~gameStarted))
C20_PlayerBox == [][C20_PlayerBoxStep]_vars
\* ticks after a resize received while the game runs: the player still has
\* the y and the size of the geometry the session started under
C20_Witness ==
  /\ Running /\ lastAction = "tick"
  /\ player.width # dims.playerSize
  /\ player.height # dims.playerSize
  /\ player.y # dims.height - dims.playerSize - 20 * Sub

\* C21: in every reachable state in which no resize came since the last
\* start (or no game was started yet), player.x lies in
\* [0, width - playerSize], whatever intents were held.
C21_ContainmentFixedGeometry ==
  ~resized => (0 <= player.x /\ player.x <= dims.width - dims.playerSize)
\* a tick with only the left intent held has kept the player at the left
\* edge, in a session without resize
C21_Witness ==
  /\ Running /\ lastAction = "tick" /\ ~resized
  /\ isMovingLeft /\ ~isMovingRight
  /\ player.x = 0

----------------------------------------------------------------------------
(* The browser runs a requested animation frame: a pending frame that stays
   pending fires. *)
\* one run of the random stream at the fastest frame rate
LiveInit == Init /\ frameMs = 50 /\ rnd = 9
LiveSpec == LiveInit /\ [][Next]_vars /\ WF_vars(Tick)

\* the bound MaxObjects has stopped the clock of the model
Halted == Running /\ spawnDue(now + frameMs) /\ objectIdRef >= MaxObjects
\* the number of frames fired so far, modulo 2 (only Tick advances now)
TickParity == ((now - 10 * 1000) \div frameMs) % 2

\* C22: while the game runs a frame is pending in every state, so also after
\* every tick and after every render caused by a key, touch or resize
\* event; and with pending frames fired, every state of the running game is
\* followed by another tick, until the game is over.
C22_PendingWhileRunning == Running => pending # {}
C22_TickFollows ==
  \A b \in {0, 1} :
     (Running /\ ~Halted /\ TickParity = b) ~> (GameOver \/ TickParity # b)
C22_NeverStalls == [](C22_PendingWhileRunning) /\ C22_TickFollows
\* ticks go on in a running session that had a key render and a resize
C22_Witness ==
  /\ Running /\ lastAction = "tick" /\ pending # {}
  /\ resized /\ keys # {} /\ events = MaxEvents
  /\ objectIdRef > 1

====
